---------------------------- MODULE Spec2Model ----------------------------
(***************************************************************************)
(* Model of mcp-repocache: the version classifier (mcp/git_fetcher.py),    *)
(* the version validator and categorizer and the docs table                *)
(* (mcp/storage.py, mcp/models.py).                                        *)
(*                                                                         *)
(* A Python str is modelled as a sequence of one-character strings, so     *)
(* that lstrip, split, startswith and the regular expressions are          *)
(* computed character by character.  Python's None is the value None       *)
(* below, a sequence no string of characters can equal.                    *)
(***************************************************************************)
EXTENDS Integers, Sequences, FiniteSets, TLC

(***************************************************************************)
(* Bounds of the model.                                                    *)
(***************************************************************************)
\* longest candidate version enumerated exhaustively over Alphabet
MaxLen == 5
\* most tags / remotes / commits of an observed repository
MaxTags == 2
MaxRemotes == 2
MaxCommits == 2
\* most rows of the docs table, most documents of one index_docs batch
MaxRows == 3
MaxBatch == 2
MaxFiles == 2
MaxCloneFailures == 5
MaxRepos == 3

(***************************************************************************)
(* Characters and strings.                                                 *)
(***************************************************************************)
None == <<"None">>

Digit == {"0", "1", "2", "3", "4", "5", "6", "7", "8", "9"}

Lower == {"a", "b", "c", "d", "e", "f", "g", "h", "i", "j", "k", "l", "m",
          "n", "o", "p", "q", "r", "s", "t", "u", "v", "w", "x", "y", "z"}

Upper == {"A", "B", "C", "D", "E", "F", "G", "H", "I", "J", "K", "L", "M",
          "N", "O", "P", "Q", "R", "S", "T", "U", "V", "W", "X", "Y", "Z"}

\* the class [a-zA-Z0-9]
AlNum == Lower \cup Upper \cup Digit

\* the characters candidate versions are enumerated over
Alphabet == {"v", "a", "1", ".", "-", "@"}

\* all strings over the set A of length at most n
StringsUpTo(A, n) == UNION {[1..k -> A] : k \in 0..n}

\* str.startswith(prefix)
startswith(s, prefix) ==
    /\ Len(s) >= Len(prefix)
    /\ SubSeq(s, 1, Len(prefix)) = prefix

\* str.lstrip(chars): drop every leading character that is in chars
RECURSIVE lstrip(_, _)
lstrip(s, chars) ==
    IF s # <<>> /\ Head(s) \in chars THEN lstrip(Tail(s), chars) ELSE s

\* str.split(sep) for a one-character sep: the list of the fields between
\* the separators (one more field than there are separators)
RECURSIVE SplitFrom(_, _, _)
SplitFrom(s, sep, cur) ==
    IF s = <<>> THEN <<cur>>
    ELSE IF Head(s) = sep THEN <<cur>> \o SplitFrom(Tail(s), sep, <<>>)
    ELSE SplitFrom(Tail(s), sep, Append(cur, Head(s)))

split(s, sep) == SplitFrom(s, sep, <<>>)

\* index of the first character at or after i that is not in class
\* (Len(s) + 1 when there is none): the end of a greedy class+ run
RECURSIVE SkipClass(_, _, _)
SkipClass(s, i, class) ==
    IF i <= Len(s) /\ s[i] \in class THEN SkipClass(s, i + 1, class) ELSE i

\* re.match(p, s) for a pattern p that ends in $ (no MULTILINE flag): $
\* matches at the end of s and also just before a newline that ends s.
\* DollarEnds(s) are the prefixes of s at whose end $ matches.
DollarEnds(s) ==
    {s} \cup IF s # <<>> /\ s[Len(s)] = "\n"
             THEN {SubSeq(s, 1, Len(s) - 1)}
             ELSE {}

(***************************************************************************)
(* mcp/models.py: VersionType, the closed set of category values.          *)
(***************************************************************************)
LATEST == <<"l", "a", "t", "e", "s", "t">>
MAIN_BRANCH == <<"m", "a", "i", "n">>
\* VersionType.LOCAL (LOCAL is a reserved word of TLA+)
LOCAL_PATH == <<"l", "o", "c", "a", "l">>
ERROR == <<"e", "r", "r", "o", "r">>
DETACHED_HEAD == <<"d", "e", "t", "a", "c", "h", "e", "d">>
SHALLOW_CLONE == <<"s", "h", "a", "l", "l", "o", "w">>
NO_REMOTE == <<"n", "o", "-", "r", "e", "m", "o", "t", "e">>
INITIAL_COMMIT == <<"i", "n", "i", "t", "i", "a", "l">>
MULTIPLE_REMOTES == <<"m", "u", "l", "t", "i", "-", "r", "e", "m", "o", "t", "e">>
SUBMODULE == <<"s", "u", "b", "m", "o", "d", "u", "l", "e">>
EMPTY_REPO == <<"e", "m", "p", "t", "y">>
CORRUPTED == <<"c", "o", "r", "r", "u", "p", "t", "e", "d">>

\* [vt.value for vt in VersionType]
VersionTypeValues ==
    {LATEST, MAIN_BRANCH, LOCAL_PATH, ERROR, DETACHED_HEAD, SHALLOW_CLONE,
     NO_REMOTE, INITIAL_COMMIT, MULTIPLE_REMOTES, SUBMODULE, EMPTY_REPO,
     CORRUPTED}

(***************************************************************************)
(* mcp/storage.py: validate_version and determine_version_category.        *)
(***************************************************************************)
\* the class [a-zA-Z0-9._-] of a pre-release suffix
SuffixClass == AlNum \cup {".", "_", "-"}

\* the class [a-zA-Z0-9._/-] of a tag or branch name after its first character
TagClass == AlNum \cup {".", "_", "/", "-"}

\* v?\d+\.\d+\.\d+(?:-[a-zA-Z0-9._-]+)? matching the whole of s.  The digit
\* runs are greedy and a digit is neither "." nor "-", so no backtracking
\* can find a match the greedy scan misses.
SemanticFull(s) ==
    LET i0 == IF s # <<>> /\ s[1] = "v" THEN 2 ELSE 1
        i1 == SkipClass(s, i0, Digit)
        i2 == SkipClass(s, i1 + 1, Digit)
        i3 == SkipClass(s, i2 + 1, Digit)
    IN  /\ i1 > i0
        /\ i1 <= Len(s) /\ s[i1] = "."
        /\ i2 > i1 + 1
        /\ i2 <= Len(s) /\ s[i2] = "."
        /\ i3 > i2 + 1
        /\ \/ i3 = Len(s) + 1
           \/ /\ s[i3] = "-"
              /\ i3 < Len(s)
              /\ \A k \in (i3 + 1)..Len(s) : s[k] \in SuffixClass

\* re.match(r"^(v?\d+\.\d+\.\d+)(?:-[a-zA-Z0-9._-]+)?$", s)
semantic_pattern(s) == \E e \in DollarEnds(s) : SemanticFull(e)

\* \d+\.\d+ matching the whole of s
IncompleteFull(s) ==
    LET i1 == SkipClass(s, 1, Digit)
        i2 == SkipClass(s, i1 + 1, Digit)
    IN  /\ i1 > 1
        /\ i1 <= Len(s) /\ s[i1] = "."
        /\ i2 > i1 + 1
        /\ i2 = Len(s) + 1

\* re.match(r"^\d+\.\d+", s): the pattern without its "$"
incomplete_semver_pattern_unanchored(s) ==
    LET i1 == SkipClass(s, 1, Digit)
        i2 == SkipClass(s, i1 + 1, Digit)
    IN  /\ i1 > 1
        /\ i1 <= Len(s) /\ s[i1] = "."
        /\ i2 > i1 + 1

\* re.match(r"^\d+\.\d+$", s)
incomplete_semver_pattern(s) == \E e \in DollarEnds(s) : IncompleteFull(e)

\* [a-zA-Z0-9][a-zA-Z0-9._/-]* matching the whole of s
GitTagFull(s) ==
    /\ s # <<>>
    /\ s[1] \in AlNum
    /\ \A k \in 2..Len(s) : s[k] \in TagClass

\* re.match(r"^[a-zA-Z0-9][a-zA-Z0-9._/-]*$", s)
git_tag_pattern(s) == \E e \in DollarEnds(s) : GitTagFull(e)

\* version.lstrip("v").split(".")
version_parts(version) == split(lstrip(version, {"v"}), ".")

\* validate_version returning "" where it should return the default
validate_version_empty_default(version) ==
    IF version = None \/ version = <<>> THEN LATEST
    ELSE IF version \in VersionTypeValues THEN version
    ELSE IF Len(version_parts(version)) # 3 THEN <<>>
    ELSE IF semantic_pattern(version) THEN version
    ELSE IF incomplete_semver_pattern(version) THEN <<>>
    ELSE IF git_tag_pattern(version) THEN version
    ELSE <<>>

\* validate_version without the check of the number of components
validate_version_no_count(version) ==
    IF version = None \/ version = <<>> THEN LATEST
    ELSE IF version \in VersionTypeValues THEN version
    ELSE IF semantic_pattern(version) THEN version
    ELSE IF incomplete_semver_pattern(version) THEN LATEST
    ELSE IF git_tag_pattern(version) THEN version
    ELSE LATEST

\* validate_version checking the number of components before the category
\* values
validate_version_count_first(version) ==
    IF version = None \/ version = <<>> THEN LATEST
    ELSE IF Len(version_parts(version)) # 3 THEN LATEST
    ELSE IF version \in VersionTypeValues THEN version
    ELSE IF semantic_pattern(version) THEN version
    ELSE IF incomplete_semver_pattern(version) THEN LATEST
    ELSE IF git_tag_pattern(version) THEN version
    ELSE LATEST

\* validate_version answering None where it rejects a version
validate_version_rejecting(version) ==
    IF version = None \/ version = <<>> THEN LATEST
    ELSE IF version \in VersionTypeValues THEN version
    ELSE IF Len(version_parts(version)) # 3 THEN None
    ELSE IF semantic_pattern(version) THEN version
    ELSE IF incomplete_semver_pattern(version) THEN None
    ELSE IF git_tag_pattern(version) THEN version
    ELSE None

validate_version(version) ==
    IF version = None \/ version = <<>> THEN LATEST
    ELSE IF version \in VersionTypeValues THEN version
    ELSE IF Len(version_parts(version)) # 3 THEN LATEST
    ELSE IF semantic_pattern(version) THEN version
    ELSE IF incomplete_semver_pattern(version) THEN LATEST
    ELSE IF git_tag_pattern(version) THEN version
    ELSE LATEST

\* determine_version_category returning every version as its own category
determine_version_category_identity(version) == version

determine_version_category(version) ==
    IF version \in VersionTypeValues THEN version ELSE LATEST

(***************************************************************************)
(* mcp/git_fetcher.py: determine_version.                                  *)
(*                                                                         *)
(* A repository as GitPython shows it: heads and tags are the lists        *)
(* repo.heads and repo.tags (tags in the order GitPython lists them, by    *)
(* name), is_detached is repo.head.is_detached, is_shallow the answer of   *)
(* repo.is_shallow(), remotes is len(repo.remotes), commits is             *)
(* len(list(repo.iter_commits())), active_branch is repo.active_branch's   *)
(* name (None only on a detached HEAD).                                    *)
(*                                                                         *)
(* Any read of the repository may raise.  fault.step names the read that   *)
(* raises (0: none), fault.kind the exception, and fault.again says that   *)
(* the tag list, having failed at step 8, fails again at step 10.          *)
(***************************************************************************)
\* the reads of determine_version, in program order
StepRepo == 1
StepHeadsTags == 2
StepDetached == 3
StepShallow == 4
StepRemotes == 5
StepCommits == 6
StepRemoteCount == 7
StepLatestTag == 8
StepActiveBranch == 9
StepBranchTags == 10

NoFault == [step |-> 0, kind |-> "none", again |-> FALSE]

\* the exceptions the inner handler of the tag lookup swallows
TagLookupCaught == {"IndexError", "GitCommandError"}

\* the exceptions the first outer handler names
NotARepository == {"InvalidGitRepositoryError", "NoSuchPathError"}

\* How a call ends: ret is the value returned (None when the call raises),
\* exc the exception that escapes it, caught the exception an outer handler
\* turned into a return value, swallowed the exception the inner handler of
\* the tag lookup passed over ("none" where there is none).
Returned(v) ==
    [ret |-> v, exc |-> "none", caught |-> "none", swallowed |-> "none"]

Raised(kind) ==
    [ret |-> None, exc |-> kind, caught |-> "none", swallowed |-> "none"]

\* not repo_url.startswith(("http://", "https://", "git@"))
is_local_url(repo_url) ==
    ~ \/ startswith(repo_url, <<"h", "t", "t", "p", ":", "/", "/">>)
      \/ startswith(repo_url, <<"h", "t", "t", "p", "s", ":", "/", "/">>)
      \/ startswith(repo_url, <<"g", "i", "t", "@">>)

\* lines 64-69: fall back to the branch name
branch_fallback(repo, fault, tagsFailAgain) ==
    IF fault.step = StepActiveBranch THEN Raised(fault.kind)
    ELSE LET current_branch ==
                 IF repo.active_branch # None THEN repo.active_branch
                 ELSE MAIN_BRANCH
         IN  IF current_branch # MAIN_BRANCH THEN Returned(current_branch)
             ELSE IF fault.step = StepBranchTags \/ tagsFailAgain
                  THEN Raised(fault.kind)
             ELSE IF repo.tags = <<>> THEN Returned(MAIN_BRANCH)
             ELSE Returned(current_branch)

\* lines 56-62: the latest tag, inside its own try
latest_tag_or_fallback(repo, fault) ==
    IF fault.step = StepLatestTag
    THEN IF fault.kind \in TagLookupCaught
         THEN [branch_fallback(repo, fault, fault.again)
                   EXCEPT !.swallowed = fault.kind]
         ELSE Raised(fault.kind)
    ELSE IF repo.tags # <<>> THEN Returned(repo.tags[Len(repo.tags)])
    ELSE branch_fallback(repo, fault, FALSE)

\* determine_version_body with the shallow check moved before the empty check
determine_version_body_shallow_first(repo, repo_url, fault) ==
    IF fault.step = StepRepo THEN Raised(fault.kind)
    ELSE IF fault.step = StepShallow THEN Raised(fault.kind)
    ELSE IF repo.is_shallow THEN Returned(SHALLOW_CLONE)
    ELSE IF fault.step = StepHeadsTags THEN Raised(fault.kind)
    ELSE IF repo.heads = <<>> /\ repo.tags = <<>> THEN Returned(EMPTY_REPO)
    ELSE IF fault.step = StepDetached THEN Raised(fault.kind)
    ELSE IF repo.is_detached THEN Returned(DETACHED_HEAD)
    ELSE IF fault.step = StepRemotes THEN Raised(fault.kind)
    ELSE IF repo.remotes = 0 THEN Returned(NO_REMOTE)
    ELSE IF fault.step = StepCommits THEN Raised(fault.kind)
    ELSE IF repo.commits <= 1 THEN Returned(INITIAL_COMMIT)
    ELSE IF fault.step = StepRemoteCount THEN Raised(fault.kind)
    ELSE IF repo.remotes > 1 THEN Returned(MULTIPLE_REMOTES)
    ELSE IF is_local_url(repo_url) THEN Returned(LOCAL_PATH)
    ELSE latest_tag_or_fallback(repo, fault)

\* lines 26-69: the body of the outer try
determine_version_body(repo, repo_url, fault) ==
    IF fault.step = StepRepo THEN Raised(fault.kind)
    ELSE IF fault.step = StepHeadsTags THEN Raised(fault.kind)
    ELSE IF repo.heads = <<>> /\ repo.tags = <<>> THEN Returned(EMPTY_REPO)
    ELSE IF fault.step = StepDetached THEN Raised(fault.kind)
    ELSE IF repo.is_detached THEN Returned(DETACHED_HEAD)
    ELSE IF fault.step = StepShallow THEN Raised(fault.kind)
    ELSE IF repo.is_shallow THEN Returned(SHALLOW_CLONE)
    ELSE IF fault.step = StepRemotes THEN Raised(fault.kind)
    ELSE IF repo.remotes = 0 THEN Returned(NO_REMOTE)
    ELSE IF fault.step = StepCommits THEN Raised(fault.kind)
    ELSE IF repo.commits <= 1 THEN Returned(INITIAL_COMMIT)
    ELSE IF fault.step = StepRemoteCount THEN Raised(fault.kind)
    ELSE IF repo.remotes > 1 THEN Returned(MULTIPLE_REMOTES)
    ELSE IF is_local_url(repo_url) THEN Returned(LOCAL_PATH)
    ELSE latest_tag_or_fallback(repo, fault)

\* determine_version_handlers answering 'corrupted' for what is not a
\* repository
determine_version_handlers_corrupted(outcome) ==
    IF outcome.exc \in NotARepository
    THEN [outcome EXCEPT !.ret = CORRUPTED, !.exc = "none",
                         !.caught = outcome.exc]
    ELSE IF outcome.exc # "none"
    THEN [outcome EXCEPT !.ret = ERROR, !.exc = "none", !.caught = outcome.exc]
    ELSE outcome

\* determine_version_handlers without the handler of Exception
determine_version_handlers_named_only(outcome) ==
    IF outcome.exc \in NotARepository
    THEN [outcome EXCEPT !.ret = ERROR, !.exc = "none", !.caught = outcome.exc]
    ELSE outcome

\* lines 71-75: the handlers of the outer try.  Every exception the reads
\* raise is an Exception, so the second handler catches what the first
\* does not name.
determine_version_handlers(outcome) ==
    IF outcome.exc \in NotARepository
    THEN [outcome EXCEPT !.ret = ERROR, !.exc = "none", !.caught = outcome.exc]
    ELSE IF outcome.exc # "none"
    THEN [outcome EXCEPT !.ret = ERROR, !.exc = "none", !.caught = outcome.exc]
    ELSE outcome

\* the call: what it returns (ret) or lets escape (exc)
determine_version(repo, repo_url, fault) ==
    determine_version_handlers(determine_version_body(repo, repo_url, fault))

(***************************************************************************)
(* mcp/storage.py: the docs table, setup_db and index_docs.                *)
(*                                                                         *)
(* A column value is a string or None (SQL NULL).  A row is a record over  *)
(* Columns; id is the AUTOINCREMENT key.  Rows are never deleted, so the   *)
(* next id is one more than the number of rows.                            *)
(***************************************************************************)
\* CURRENT_TIMESTAMP, as one symbolic value
Now == <<"CURRENT_TIMESTAMP">>

\* CREATE TABLE IF NOT EXISTS docs (...)
Columns ==
    <<"id", "repo", "path", "content", "version", "version_category",
      "created_at", "updated_at">>

\* the columns an INSERT may name
DataColumns ==
    {"repo", "path", "content", "version", "version_category",
     "created_at", "updated_at"}

\* the NOT NULL columns of a table whose version column is nullable
NotNullColumns_version_nullable ==
    {"repo", "path", "content", "version_category"}

\* the columns declared NOT NULL
NotNullColumns == {"repo", "path", "content", "version", "version_category"}

\* the DEFAULTs of a table whose version column defaults to 'main'
ColumnDefault_version_main ==
    [c \in DataColumns |->
        IF c = "version" THEN MAIN_BRANCH
        ELSE IF c = "version_category" THEN LATEST
        ELSE IF c \in {"created_at", "updated_at"} THEN Now
        ELSE None]

\* the DEFAULT of each column (None: no DEFAULT clause, so NULL)
ColumnDefault ==
    [c \in DataColumns |->
        IF c \in {"version", "version_category"} THEN LATEST
        ELSE IF c \in {"created_at", "updated_at"} THEN Now
        ELSE None]

\* CREATE INDEX IF NOT EXISTS ... : the six indexes and their columns
Indexes ==
    [idx_docs_repo |-> <<"repo">>,
     idx_docs_version |-> <<"version">>,
     idx_docs_version_category |-> <<"version_category">>,
     idx_docs_repo_version |-> <<"repo", "version">>,
     idx_docs_path |-> <<"path">>,
     idx_docs_full_search |-> <<"repo", "version", "path">>]

\* every object setup_db creates
SchemaObjects == {"docs"} \cup DOMAIN Indexes

\* the seven statements setup_db executes, in its order, each by the object
\* it creates
SetupStatements ==
    <<"docs", "idx_docs_repo", "idx_docs_version",
      "idx_docs_version_category", "idx_docs_repo_version", "idx_docs_path",
      "idx_docs_full_search">>

\* A failure of the storage engine: the call that raises (connect, the
\* nth execute or commit of setup_db or of index_docs), the message of the
\* error it raises, and whether the same call would succeed on a later
\* attempt.
NoStorageFault ==
    [fn |-> "none", at |-> "none", nth |-> 0, kind |-> "none",
     transient |-> FALSE]

\* the engine call (fn, at, nth) is the one that raises
raises(f, fn, at, nth) == f.fn = fn /\ f.at = at /\ f.nth = nth

\* a database: its objects, the committed rows of docs, and how the last
\* call on it ended
Database(objects, rows, error) ==
    [objects |-> objects, rows |-> rows, error |-> error]

\* CREATE TABLE / CREATE INDEX without IF NOT EXISTS
create_plain(db, name) ==
    IF name \in db.objects
    THEN Database(db.objects, db.rows, "already exists")
    ELSE Database(db.objects \cup {name}, db.rows, "none")

\* DROP TABLE IF EXISTS docs before CREATE TABLE docs
create_replacing(db, name) ==
    Database(db.objects \cup {name},
             IF name = "docs" THEN <<>> ELSE db.rows, "none")

\* CREATE TABLE IF NOT EXISTS / CREATE INDEX IF NOT EXISTS: a statement of
\* its own transaction, since sqlite3 opens none before a CREATE
create_if_not_exists(db, name) ==
    IF name \in db.objects
    THEN Database(db.objects, db.rows, "none")
    ELSE Database(db.objects \cup {name}, db.rows, "none")

\* the execute calls of setup_db from the kth on, stopping at the first
\* that raises; what the earlier ones created stays
RECURSIVE setup_statements(_, _, _)
setup_statements(db, f, k) ==
    IF k > Len(SetupStatements) THEN Database(db.objects, db.rows, "none")
    ELSE IF raises(f, "setup_db", "execute", k)
    THEN Database(db.objects, db.rows, f.kind)
    ELSE LET r == create_if_not_exists(db, SetupStatements[k])
         IN  IF r.error # "none" THEN r
             ELSE setup_statements(r, f, k + 1)

\* setup_db(db_path): connect, the seven statements, commit, close
setup_db(db, f) ==
    IF raises(f, "setup_db", "connect", 0)
    THEN Database(db.objects, db.rows, f.kind)
    ELSE LET r == setup_statements(db, f, 1)
         IN  IF r.error # "none" THEN r
             ELSE IF raises(f, "setup_db", "commit", 0)
             THEN Database(r.objects, r.rows, f.kind)
             ELSE r

\* INSERT INTO docs (the columns of given) VALUES (its values): the row the
\* engine would store, columns not named taking their DEFAULT
insert_row(rows, given) ==
    [c \in DataColumns \cup {"id"} |->
        IF c = "id" THEN Len(rows) + 1
        ELSE IF c \in DOMAIN given THEN given[c]
        ELSE ColumnDefault[c]]

\* the NOT NULL constraints of the table, checked on the row to store
violates_not_null(row) == \E c \in NotNullColumns : row[c] = None

\* INSERT OR REPLACE on a table where (repo, path) is unique
sql_insert_or_replace(rows, given) ==
    LET row == insert_row(rows, given)
        same == {i \in 1..Len(rows) :
                    rows[i].repo = row.repo /\ rows[i].path = row.path}
    IN  IF violates_not_null(row)
        THEN [rows |-> rows, error |-> "IntegrityError"]
        ELSE IF same # {}
        THEN [rows |-> [i \in 1..Len(rows) |->
                           IF i \in same
                           THEN [row EXCEPT !.id = rows[i].id]
                           ELSE rows[i]],
              error |-> "none"]
        ELSE [rows |-> Append(rows, row), error |-> "none"]

\* one INSERT statement: the table after it and how it ended
sql_insert(rows, given) ==
    LET row == insert_row(rows, given)
    IN  IF violates_not_null(row)
        THEN [rows |-> rows, error |-> "IntegrityError"]
        ELSE [rows |-> Append(rows, row), error |-> "none"]

\* doc_values storing the document's version as it came
doc_values_unvalidated(doc) ==
    [repo |-> doc.repo, path |-> doc.path, content |-> doc.content,
     version |-> doc.version,
     version_category |-> determine_version_category(doc.version),
     created_at |-> Now, updated_at |-> Now]

\* lines 94-107 of index_docs: the INSERT for one document
doc_values(doc) ==
    LET version == validate_version(doc.version)
        version_category == determine_version_category(version)
    IN  [repo |-> doc.repo, path |-> doc.path, content |-> doc.content,
         version |-> version, version_category |-> version_category,
         created_at |-> Now, updated_at |-> Now]

\* the loop of index_docs from the kth document on: the statement of each
\* document in turn, stopping at the first that raises
RECURSIVE insert_docs(_, _, _, _)
insert_docs(rows, batch, f, k) ==
    IF k > Len(batch) THEN [rows |-> rows, error |-> "none"]
    ELSE IF raises(f, "index_docs", "execute", k)
    THEN [rows |-> rows, error |-> f.kind]
    ELSE LET r == sql_insert(rows, doc_values(batch[k]))
         IN  IF r.error # "none" THEN r
             ELSE insert_docs(r.rows, batch, f, k + 1)

\* the connections setup_db has opened and not closed when it ends:
\* conn.close() is its last statement, reached only when nothing raised
setup_db_unclosed(db, f) ==
    IF raises(f, "setup_db", "connect", 0) THEN 0
    ELSE IF setup_db(db, f).error # "none" THEN 1
    ELSE 0

\* the connections index_docs, and the setup_db it calls, have opened and
\* not closed when it ends
index_docs_unclosed(db, batch, f) ==
    LET s == setup_db(db, f)
        r == insert_docs(s.rows, batch, f, 1)
    IN  IF s.error # "none" THEN setup_db_unclosed(db, f)
        ELSE IF raises(f, "index_docs", "connect", 0) THEN 0
        ELSE IF r.error # "none" \/ raises(f, "index_docs", "commit", 0)
        THEN 1
        ELSE 0

\* index_docs committing after every INSERT
index_docs_commit_each(db, batch, f) ==
    LET s == setup_db(db, f)
        r == insert_docs(s.rows, batch, f, 1)
    IN  IF s.error # "none" THEN s
        ELSE IF raises(f, "index_docs", "connect", 0)
        THEN Database(s.objects, s.rows, f.kind)
        ELSE IF r.error # "none" THEN Database(s.objects, r.rows, r.error)
        ELSE IF raises(f, "index_docs", "commit", 0)
        THEN Database(s.objects, r.rows, f.kind)
        ELSE Database(s.objects, r.rows, "none")

\* index_docs with every exception caught and dropped
index_docs_swallowing(db, batch, f) ==
    LET s == setup_db(db, f)
        r == insert_docs(s.rows, batch, f, 1)
    IN  IF s.error # "none" \/ raises(f, "index_docs", "connect", 0)
           \/ r.error # "none" \/ raises(f, "index_docs", "commit", 0)
        THEN Database(s.objects, s.rows, "none")
        ELSE Database(s.objects, r.rows, "none")

\* index_docs(docs, zim_dir, db_path): setup_db, connect, one INSERT per
\* document, one commit after the last, close.  Nothing is caught: a call
\* that raises ends index_docs before the commit, and the rows inserted so
\* far are rolled back when the connection is dropped.
index_docs(db, batch, f) ==
    LET s == setup_db(db, f)
        r == insert_docs(s.rows, batch, f, 1)
    IN  IF s.error # "none" THEN s
        ELSE IF raises(f, "index_docs", "connect", 0)
        THEN Database(s.objects, s.rows, f.kind)
        ELSE IF r.error # "none" THEN Database(s.objects, s.rows, r.error)
        ELSE IF raises(f, "index_docs", "commit", 0)
        THEN Database(s.objects, s.rows, f.kind)
        ELSE Database(s.objects, r.rows, "none")

(***************************************************************************)
(* mcp/git_fetcher.py: fetch_repo.                                         *)
(*                                                                         *)
(* A repository to fetch is the Repository record (url, name) together     *)
(* with what the calls of fetch_repo meet: clone_failures is the number of *)
(* Repo.clone_from calls in a row that raise clone_error before one would  *)
(* succeed, files is what os.walk lists in the clone (the name of each     *)
(* file and how open/read of it ends), worktree and wfault are the clone   *)
(* as determine_version reads it.                                          *)
(***************************************************************************)
\* str.endswith(suffix)
endswith(s, suffix) ==
    /\ Len(s) >= Len(suffix)
    /\ SubSeq(s, Len(s) - Len(suffix) + 1, Len(s)) = suffix

\* str.replace(".git", "")
RECURSIVE replace_dot_git(_)
replace_dot_git(s) ==
    IF s = <<>> THEN <<>>
    ELSE IF startswith(s, <<".", "g", "i", "t">>)
    THEN replace_dot_git(SubSeq(s, 5, Len(s)))
    ELSE <<Head(s)>> \o replace_dot_git(Tail(s))

\* repo.name or repo.url.split("/")[-1].replace(".git", "")
repo_name(repo) ==
    IF repo.name # None /\ repo.name # <<>> THEN repo.name
    ELSE LET parts == split(repo.url, "/")
         IN  replace_dot_git(parts[Len(parts)])

\* how a fetch_repo call ends: the documents it returns or the exception it
\* raises, the number of Repo.clone_from calls and the time.sleep calls
Fetched(fetched_docs, exc, clone_calls, sleeps) ==
    [docs |-> fetched_docs, exc |-> exc, clone_calls |-> clone_calls,
     sleeps |-> sleeps]

\* lines 96-116: the files os.walk lists, from the kth on; a file that is
\* not *.md is passed over, a read that raises ends the loop
RECURSIVE walk_files(_, _)
walk_files(repo, k) ==
    IF k > Len(repo.files) THEN [docs |-> <<>>, exc |-> "none"]
    ELSE IF ~endswith(repo.files[k].name, <<".", "m", "d">>)
    THEN walk_files(repo, k + 1)
    ELSE IF repo.files[k].read # "ok"
    THEN [docs |-> <<>>, exc |-> repo.files[k].read]
    ELSE LET rest == walk_files(repo, k + 1)
             doc == [repo |-> repo_name(repo),
                     path |-> repo.files[k].name,
                     content |-> <<"#">>,
                     version |->
                         determine_version(repo.worktree, repo.url,
                                           repo.wfault).ret]
         IN  IF rest.exc # "none" THEN rest
             ELSE [docs |-> <<doc>> \o rest.docs, exc |-> "none"]

\* fetch_repo(repo, raw_dir): one Repo.clone_from call, then the walk; the
\* three handlers log and raise again what they caught
fetch_repo(repo) ==
    IF repo.clone_failures > 0
    THEN Fetched(<<>>, repo.clone_error, 1, <<>>)
    ELSE LET r == walk_files(repo, 1)
         IN  Fetched(r.docs, r.exc, 1, <<>>)

(***************************************************************************)
(* Inputs.                                                                 *)
(***************************************************************************)
\* strings the repository's tests pass to validate_version, and a few more
\* that reach the characters and lengths Alphabet and MaxLen leave out
Samples ==
    {<<"1", ".", "0", ".", "0">>,
     <<"v", "1", ".", "2", ".", "3">>,
     <<"2", ".", "1", ".", "0", "-", "b", "e", "t", "a">>,
     <<"v", "3", ".", "0", ".", "0", "-", "a", "l", "p", "h", "a", ".", "1">>,
     <<"r", "e", "l", "e", "a", "s", "e", "-", "1", ".", "0">>,
     <<"v", "2", ".", "1", ".", "3">>,
     <<"h", "o", "t", "f", "i", "x", "-", "b", "r", "a", "n", "c", "h">>,
     <<"f", "e", "a", "t", "u", "r", "e", "_", "n", "e", "w", "_", "u", "i">>,
     <<"i", "n", "v", "a", "l", "i", "d", " ", "v", "e", "r", "s", "i", "o", "n">>,
     <<"1", ".", "2">>,
     <<"v", "1", ".", "2", ".", "3", ".", "4">>,
     <<"@", "#", "$", "%", "^", "&", "*", "(", ")">>,
     <<"3", ".", "0", ".", "0", "-", "b", "e", "t", "a">>,
     <<"1", ".", "2", ".", "3", "\n">>,
     <<"1", ".", "2", "\n">>,
     <<"v", "v", "1", ".", "2", ".", "3">>,
     <<"1", ".", "2", ".", "3", "-", "a", "_", "b">>,
     <<"1", ".", "2", ".", "3", "-", "a", "/", "b">>,
     <<"f", "e", "a", "t", "u", "r", "e", "/", "x", ".", "y", ".", "z">>,
     <<"a", ".", "b", ".", "c", "\n">>,
     <<"d", "e", "v">>}

\* the candidates validate_version is tried on
Candidates ==
    StringsUpTo(Alphabet, MaxLen) \cup VersionTypeValues \cup Samples
        \cup {None}

\* tag names, in the order GitPython lists them (by name)
TagNameOrder ==
    <<LATEST,
      <<"r", "e", "l", "-", "1">>,
      <<"v", "1", ".", "2", ".", "3">>>>

\* the members of the index set I of the sequence s, in the order of s
RECURSIVE Pick(_, _, _)
Pick(s, I, i) ==
    IF i > Len(s) THEN <<>>
    ELSE IF i \in I THEN <<s[i]>> \o Pick(s, I, i + 1)
    ELSE Pick(s, I, i + 1)

\* the values repo.tags can take: at most MaxTags names, listed by name
TagLists ==
    {Pick(TagNameOrder, I, 1) :
        I \in {J \in SUBSET (1..Len(TagNameOrder)) : Cardinality(J) <= MaxTags}}

BranchNames == {MAIN_BRANCH, <<"d", "e", "v">>}

\* HEAD is detached exactly when there is no active branch; newest_tag is
\* the tag created last, any of the tags whatever its name
Repos ==
    {r \in [heads : {<<>>, <<MAIN_BRANCH>>},
            tags : TagLists,
            newest_tag : {TagNameOrder[i] : i \in 1..Len(TagNameOrder)}
                             \cup {None},
            is_detached : BOOLEAN,
            is_shallow : BOOLEAN,
            remotes : 0..MaxRemotes,
            commits : 0..MaxCommits,
            active_branch : BranchNames \cup {None}] :
        /\ r.is_detached <=> (r.active_branch = None)
        /\ IF r.tags = <<>> THEN r.newest_tag = None
           ELSE \E i \in 1..Len(r.tags) : r.newest_tag = r.tags[i]}

Urls ==
    {<<"h", "t", "t", "p", "s", ":", "/", "/", "h", "/", "r">>,
     <<"h", "t", "t", "p", ":", "/", "/", "h", "/", "r">>,
     <<"g", "i", "t", "@", "h", ":", "r">>,
     <<"a", "l", "@", "h", ":", "r">>,
     <<"/", "p", "/", "r">>}

\* what can go wrong while the repository is read: Repo() finds no
\* repository, any read raises GitCommandError or some other Exception
\* (ValueError stands for these), the tag lookup raises IndexError
Faults ==
    {NoFault}
        \cup [step : {StepRepo}, kind : NotARepository, again : {FALSE}]
        \cup [step : StepRepo..StepBranchTags,
              kind : {"GitCommandError", "ValueError"}, again : {FALSE}]
        \cup [step : {StepLatestTag}, kind : {"IndexError"}, again : {FALSE}]
        \cup [step : {StepLatestTag}, kind : {"GitCommandError"},
              again : {TRUE}]

\* Document.version when the constructor is given none
DocumentDefaultVersion == LATEST

\* the versions of the documents handed to index_docs: absent (the default
\* of the model), None, empty, a category, a semantic version, a rejected one
DocVersions ==
    {DocumentDefaultVersion, None, <<>>, MAIN_BRANCH,
     <<"1", ".", "2", ".", "3">>, <<"1", ".", "2">>}

\* Document(repo: str, path: str, content: str, version): any strings, the
\* empty one included
Documents ==
    [repo : {<<"r">>}, path : {<<"a", ".", "m", "d">>},
     content : {<<"#">>}, version : DocVersions]
        \cup [repo : {<<"r">>, <<>>}, path : {<<"a", ".", "m", "d">>, <<>>},
              content : {<<"#">>}, version : {DocumentDefaultVersion}]

Batches == UNION {[1..k -> Documents] : k \in 0..MaxBatch}

\* the messages of the errors the engine raises: sqlite3.OperationalError,
\* and sqlite3.DatabaseError on a file that is not a database
StorageErrors ==
    {"database or disk is full", "attempt to write a readonly database",
     "file is not a database", "database is locked",
     "query timeout exceeded"}

\* the engine calls of setup_db and of index_docs that can raise
StorageCalls ==
    [fn : {"setup_db", "index_docs"}, at : {"connect", "commit"}, nth : {0}]
        \cup [fn : {"setup_db"}, at : {"execute"},
              nth : 1..Len(SetupStatements)]
        \cup [fn : {"index_docs"}, at : {"execute"}, nth : 1..MaxBatch]

\* a failing engine: one call raises one error; a lock may be transient
StorageFaults ==
    {f \in [fn : {"setup_db", "index_docs"},
            at : {"connect", "execute", "commit"},
            nth : 0..(Len(SetupStatements) + MaxBatch),
            kind : StorageErrors,
            transient : BOOLEAN] :
        /\ [fn |-> f.fn, at |-> f.at, nth |-> f.nth] \in StorageCalls
        /\ f.transient => f.kind = "database is locked"}

\* the documents handed to index_docs while the engine fails
FaultyBatches ==
    UNION {[1..k -> {d \in Documents :
                        d.repo # <<>> /\ d.path # <<>>
                            /\ d.version \in {DocumentDefaultVersion,
                                               <<"1", ".", "2">>}}] :
              k \in 0..MaxBatch}

\* the INSERT statements the tests run on the table directly:
\* test_version_not_null_constraint (version NULL) and
\* test_version_default_value (version not named)
RawInserts ==
    {[repo |-> <<"r">>, path |-> <<"a", ".", "m", "d">>, content |-> <<"#">>,
      version |-> None, version_category |-> LATEST],
     [repo |-> <<"r">>, path |-> <<"a", ".", "m", "d">>, content |-> <<"#">>,
      version_category |-> LATEST]}

\* the files os.walk can list: a markdown file whose read succeeds or
\* raises, and a file that is not markdown
WalkedFiles ==
    [name : {<<"a", ".", "m", "d">>}, read : {"ok", "MemoryError", "UnicodeDecodeError", "PermissionError"}]
        \cup [name : {<<"b", ".", "t", "x", "t">>}, read : {"ok"}]

FileLists == UNION {[1..k -> WalkedFiles] : k \in 0..MaxFiles}

\* a clone as determine_version finds it: one remote (origin), some
\* history, a branch checked out, at most one tag
Worktrees ==
    {r \in Repos :
        /\ r.heads = <<MAIN_BRANCH>>
        /\ r.remotes = 1
        /\ r.commits = 2
        /\ ~r.is_shallow
        /\ ~r.is_detached
        /\ Len(r.tags) <= 1}

\* the repositories handed to fetch_repo
FetchInputs ==
    {r \in [valid : {TRUE},
            url : {<<"h", "t", "t", "p", "s", ":", "/", "/", "h", "/", "r", ".", "g", "i", "t">>,
                   <<"h", "t", "t", "p", "s", ":", "/", "/", "h", "/", "r", "/">>},
            name : {None, <<"n">>},
            clone_failures : 0..MaxCloneFailures,
            clone_error : {"GitCommandError", "OSError"},
            files : FileLists,
            worktree : Worktrees,
            wfault : {NoFault,
                      [step |-> StepShallow, kind |-> "ValueError",
                       again |-> FALSE]}] :
        /\ r.name # None => r.url[Len(r.url)] # "/"
        /\ r.clone_failures > 0 =>
               /\ r.files = <<>>
               /\ r.wfault = NoFault
               /\ r.worktree.tags = <<>>
               /\ r.worktree.active_branch = MAIN_BRANCH
        /\ r.clone_failures = 0 => r.clone_error = "GitCommandError"}

\* the entries of config["repositories"]: one that Repository(**repo_config)
\* rejects, one whose clone fails, one without markdown files, and one
\* with a markdown file, on branch main or on branch dev
MainRepos ==
    {r \in [valid : BOOLEAN,
            url : {<<"h", "t", "t", "p", "s", ":", "/", "/", "h", "/", "r", ".", "g", "i", "t">>},
            name : {<<"n">>},
            clone_failures : {0, 1},
            clone_error : {"GitCommandError"},
            files : {<<>>, <<[name |-> <<"a", ".", "m", "d">>, read |-> "ok"]>>},
            worktree : {w \in Worktrees : w.tags = <<>>},
            wfault : {NoFault}] :
        /\ (~r.valid \/ r.clone_failures > 0) => r.files = <<>>
        /\ ~r.valid => r.clone_failures = 0
        /\ r.files = <<>> => r.worktree.active_branch = MAIN_BRANCH}

Configs == UNION {[1..k -> MainRepos] : k \in 0..MaxRepos}

\* the engine under main(): one that works, and one whose first INSERT of
\* each index_docs call fails on a full disk
MainStorageFaults ==
    {NoStorageFault,
     [fn |-> "index_docs", at |-> "execute", nth |-> 1,
      kind |-> "database or disk is full", transient |-> FALSE]}

(***************************************************************************)
(* State.                                                                  *)
(***************************************************************************)
VARIABLES
    candidate,      \* the string handed to validate_version
    validated,      \* validate_version(candidate)
    revalidated,    \* validate_version(validated)
    category,       \* determine_version_category(validated)
    repo,           \* the repository determine_version reads
    repo_url,       \* its source URL
    fault,          \* the read that raises while it is read
    version,        \* how the determine_version call ended
    schema,         \* the objects of the database: the table and its indexes
    docs,           \* the rows of the docs table, in id order
    origin,         \* for each row, the statement that stored it
    last,           \* the last operation on the database and how it ended
    storage_fault,  \* the engine call that raises, if one does
    setup,          \* for each of two racing setup_db calls, where it is
    config,         \* the repositories main() goes through, in order
    fetched,        \* how the fetch_repo call ended
    progress,       \* where the loop of main() is, and what main() raised
    log             \* the calls and the messages of main(), in order

vvars == <<candidate, validated, revalidated, category>>
cvars == <<repo, repo_url, fault, version>>
svars == <<schema, docs, origin, last, storage_fault, setup>>
mvars == <<config, fetched, progress, log>>
vars == <<candidate, validated, revalidated, category, repo, repo_url, fault,
          version, schema, docs, origin, last, storage_fault, setup, config,
          fetched, progress, log>>

\* the value of a result not computed yet
Pending == <<"pending">>

ValidatorIdle ==
    /\ candidate = None
    /\ validated = Pending
    /\ revalidated = Pending
    /\ category = Pending

ClassifierIdle ==
    /\ repo = [heads |-> <<>>, tags |-> <<>>, newest_tag |-> None,
               is_detached |-> FALSE,
               is_shallow |-> FALSE, remotes |-> 0, commits |-> 0,
               active_branch |-> MAIN_BRANCH]
    /\ repo_url = <<>>
    /\ fault = NoFault
    /\ version = Returned(Pending)

\* no fetch_repo call yet
NotFetched == Fetched(<<>>, "pending", 0, <<>>)

\* main() not started, on an empty list of repositories
MainIdle ==
    /\ config = <<>>
    /\ fetched = NotFetched
    /\ progress = [next |-> 1, exc |-> "none"]
    /\ log = <<>>

\* the two callers of setup_db that race
Procs == {1, 2}

\* where a racing setup_db call is: before connect (0), before its kth
\* statement (k), before commit, or returned; and the error it raised
PcConnect == 0
PcCommit == Len(SetupStatements) + 1
PcReturned == Len(SetupStatements) + 2
SetupIdle == [p \in Procs |-> [pc |-> PcConnect, error |-> "none"]]

\* no operation yet
NoOperation ==
    [op |-> "none", error |-> "none", before |-> <<>>, objects |-> {},
     n |-> 0, null_version |-> FALSE, unclosed |-> 0]

\* a database file that does not exist yet, and an engine that works
StoreInit ==
    /\ schema = {}
    /\ docs = <<>>
    /\ origin = <<>>
    /\ last = NoOperation
    /\ storage_fault = NoStorageFault
    /\ setup = SetupIdle

(***************************************************************************)
(* The validator and the categorizer applied to one candidate.             *)
(***************************************************************************)
InitValidate ==
    /\ MainIdle
    /\ candidate \in Candidates
    /\ validated = Pending
    /\ revalidated = Pending
    /\ category = Pending
    /\ ClassifierIdle
    /\ StoreInit

Validate ==
    /\ validated = Pending
    /\ validated' = validate_version(candidate)
    /\ UNCHANGED <<candidate, revalidated, category, cvars, svars, mvars>>

Revalidate ==
    /\ validated # Pending
    /\ revalidated = Pending
    /\ revalidated' = validate_version(validated)
    /\ UNCHANGED <<candidate, validated, category, cvars, svars, mvars>>

Categorize ==
    /\ revalidated # Pending
    /\ category = Pending
    /\ category' = determine_version_category(validated)
    /\ UNCHANGED <<candidate, validated, revalidated, cvars, svars, mvars>>

NextValidate == Validate \/ Revalidate \/ Categorize

SpecValidate == InitValidate /\ [][NextValidate]_vars

(***************************************************************************)
(* The classifier applied to one repository.                               *)
(***************************************************************************)
InitClassify ==
    /\ MainIdle
    /\ repo \in Repos
    /\ repo_url \in Urls
    /\ fault \in Faults
    /\ version = Returned(Pending)
    /\ ValidatorIdle
    /\ StoreInit

DetermineVersion ==
    /\ version = Returned(Pending)
    /\ version' = determine_version(repo, repo_url, fault)
    /\ UNCHANGED <<repo, repo_url, fault, vvars, svars, mvars>>

NextClassify == DetermineVersion

SpecClassify == InitClassify /\ [][NextClassify]_vars

(***************************************************************************)
(* The database.                                                           *)
(***************************************************************************)
Init ==
    /\ MainIdle
    /\ ValidatorIdle
    /\ ClassifierIdle
    /\ StoreInit

\* a call of setup_db(db_path)
SetupDb ==
    /\ LET r == setup_db(Database(schema, docs, "none"), storage_fault)
       IN  /\ schema' = r.objects
           /\ docs' = r.rows
           /\ last' = [op |-> "setup_db", error |-> r.error,
                       before |-> docs, objects |-> schema, n |-> 0,
                       null_version |-> FALSE,
                       unclosed |->
                           setup_db_unclosed(Database(schema, docs, "none"),
                                             storage_fault)]
    /\ UNCHANGED <<origin, storage_fault, setup, vvars, cvars, mvars>>

\* a call of index_docs(docs, zim_dir, db_path)
IndexDocs(batch) ==
    /\ Len(docs) + Len(batch) <= MaxRows
    /\ LET r == index_docs(Database(schema, docs, "none"), batch,
                           storage_fault)
       IN  /\ schema' = r.objects
           /\ docs' = r.rows
           /\ origin' =
                  IF r.error = "none"
                  THEN origin \o
                       [i \in 1..Len(batch) |->
                           [via |-> "index_docs",
                            candidate |-> batch[i].version,
                            repo |-> batch[i].repo,
                            path |-> batch[i].path,
                            content |-> batch[i].content]]
                  ELSE origin
           /\ last' = [op |-> "index_docs", error |-> r.error,
                       before |-> docs, objects |-> schema,
                       n |-> Len(batch), null_version |-> FALSE,
                       unclosed |->
                           index_docs_unclosed(Database(schema, docs, "none"),
                                               batch, storage_fault)]
    /\ UNCHANGED <<storage_fault, setup, vvars, cvars, mvars>>

\* an INSERT run on the table directly, followed by commit when it succeeds
RawInsert(given) ==
    /\ "docs" \in schema
    /\ Len(docs) < MaxRows
    /\ LET r == sql_insert(docs, given)
       IN  /\ docs' = r.rows
           /\ origin' =
                  IF r.error = "none"
                  THEN Append(origin,
                              [via |-> "insert", candidate |-> None,
                               repo |-> given.repo, path |-> given.path,
                               content |-> given.content])
                  ELSE origin
           /\ last' = [op |-> "insert", error |-> r.error, before |-> docs,
                       objects |-> schema, n |-> 1,
                       null_version |->
                           "version" \in DOMAIN given /\ given.version = None,
                       unclosed |-> 0]
    /\ UNCHANGED <<schema, storage_fault, setup, vvars, cvars, mvars>>

Next ==
    \/ SetupDb
    \/ \E batch \in Batches : IndexDocs(batch)
    \/ \E given \in RawInserts : RawInsert(given)

Spec == Init /\ [][Next]_vars

(***************************************************************************)
(* The database on an engine that fails: one call of setup_db or of        *)
(* index_docs raises, each time it is reached.                             *)
(***************************************************************************)
InitFaulty ==
    /\ MainIdle
    /\ ValidatorIdle
    /\ ClassifierIdle
    /\ schema = {}
    /\ docs = <<>>
    /\ origin = <<>>
    /\ last = NoOperation
    /\ storage_fault \in StorageFaults
    /\ setup = SetupIdle

NextFaulty ==
    \/ SetupDb
    \/ \E batch \in FaultyBatches : IndexDocs(batch)

SpecFaulty == InitFaulty /\ [][NextFaulty]_vars

(***************************************************************************)
(* Two setup_db calls racing on one database file.  Each call is a         *)
(* connection of its own; each of its statements is one step of the        *)
(* engine, which runs one statement at a time.                             *)
(***************************************************************************)
\* the batches index_docs stored before the race
RaceBatches ==
    {batch \in FaultyBatches : Len(batch) >= 1}

\* the file does not exist, or index_docs has stored a batch in it
InitRace ==
    /\ MainIdle
    /\ ValidatorIdle
    /\ ClassifierIdle
    /\ storage_fault = NoStorageFault
    /\ setup = SetupIdle
    /\ \/ /\ schema = {}
          /\ docs = <<>>
          /\ origin = <<>>
          /\ last = NoOperation
       \/ \E batch \in RaceBatches :
              LET r == index_docs(Database({}, <<>>, "none"), batch,
                                  NoStorageFault)
              IN  /\ schema = r.objects
                  /\ docs = r.rows
                  /\ origin =
                         [i \in 1..Len(batch) |->
                             [via |-> "index_docs",
                              candidate |-> batch[i].version,
                              repo |-> batch[i].repo,
                              path |-> batch[i].path,
                              content |-> batch[i].content]]
                  /\ last = [op |-> "index_docs", error |-> r.error,
                             before |-> <<>>, objects |-> {},
                             n |-> Len(batch), null_version |-> FALSE,
                             unclosed |-> 0]

\* sqlite3.connect(db_path) and conn.cursor()
SetupConnect(p) ==
    /\ setup[p].pc = PcConnect
    /\ setup' = [setup EXCEPT ![p].pc = 1]
    /\ UNCHANGED <<schema, docs, origin, last, storage_fault, vvars, cvars, mvars>>

\* cursor.execute of the next CREATE ... IF NOT EXISTS statement
SetupExecute(p) ==
    /\ setup[p].pc \in 1..Len(SetupStatements)
    /\ LET r == create_if_not_exists(Database(schema, docs, "none"),
                                     SetupStatements[setup[p].pc])
       IN  /\ schema' = r.objects
           /\ docs' = r.rows
           /\ setup' =
                  IF r.error = "none"
                  THEN [setup EXCEPT ![p].pc = setup[p].pc + 1]
                  ELSE [setup EXCEPT ![p] =
                           [pc |-> PcReturned, error |-> r.error]]
    /\ UNCHANGED <<origin, last, storage_fault, vvars, cvars, mvars>>

\* conn.commit() and conn.close()
SetupCommit(p) ==
    /\ setup[p].pc = PcCommit
    /\ setup' = [setup EXCEPT ![p].pc = PcReturned]
    /\ UNCHANGED <<schema, docs, origin, last, storage_fault, vvars, cvars, mvars>>

NextRace ==
    \E p \in Procs : SetupConnect(p) \/ SetupExecute(p) \/ SetupCommit(p)

SpecRace == InitRace /\ [][NextRace]_vars

(***************************************************************************)
(* fetch_repo applied to one repository.                                   *)
(***************************************************************************)
InitFetch ==
    /\ ValidatorIdle
    /\ ClassifierIdle
    /\ StoreInit
    /\ \E r \in FetchInputs : config = <<r>>
    /\ fetched = NotFetched
    /\ progress = [next |-> 1, exc |-> "none"]
    /\ log = <<>>

FetchRepo ==
    /\ fetched = NotFetched
    /\ fetched' = fetch_repo(config[1])
    /\ UNCHANGED <<config, progress, log, vvars, cvars, svars>>

NextFetch == FetchRepo

SpecFetch == InitFetch /\ [][NextFetch]_vars

(***************************************************************************)
(* scripts/index_docs.py: main(), one repository of the configuration at a *)
(* step.                                                                   *)
(***************************************************************************)
InitMain ==
    /\ ValidatorIdle
    /\ ClassifierIdle
    /\ schema = {}
    /\ docs = <<>>
    /\ origin = <<>>
    /\ last = NoOperation
    /\ storage_fault \in MainStorageFaults
    /\ setup = SetupIdle
    /\ config \in Configs
    /\ fetched = NotFetched
    /\ progress = [next |-> 1, exc |-> "none"]
    /\ log = <<>>

\* a call or a message of main() for the ith repository
Event(event, i) == [event |-> event, repo |-> i]

\* lines 20-28: one pass of the loop.  Repository(**repo_config) stands
\* before the try, so what it raises leaves main(); what fetch_repo or
\* index_docs raise is caught and printed.
MainIteration ==
    /\ progress.exc = "none"
    /\ progress.next <= Len(config)
    /\ LET i == progress.next
           f == fetch_repo(config[i])
           r == index_docs(Database(schema, docs, "none"), f.docs,
                           storage_fault)
       IN  IF ~config[i].valid
           THEN /\ progress' = [progress EXCEPT !.exc = "ValidationError"]
                /\ UNCHANGED <<fetched, log, schema, docs, origin, last>>
           ELSE /\ progress' = [progress EXCEPT !.next = i + 1]
                /\ fetched' = f
                /\ IF f.exc # "none"
                   THEN /\ log' = log \o <<Event("fetch_repo", i),
                                           Event("Failed to index", i)>>
                        /\ UNCHANGED <<schema, docs, origin, last>>
                   ELSE IF f.docs = <<>>
                   THEN /\ log' = Append(log, Event("fetch_repo", i))
                        /\ UNCHANGED <<schema, docs, origin, last>>
                   ELSE /\ log' =
                               log \o <<Event("fetch_repo", i),
                                        Event("index_docs", i),
                                        IF r.error = "none"
                                        THEN Event("Successfully indexed", i)
                                        ELSE Event("Failed to index", i)>>
                        /\ schema' = r.objects
                        /\ docs' = r.rows
                        /\ origin' =
                               IF r.error = "none"
                               THEN origin \o
                                    [k \in 1..Len(f.docs) |->
                                        [via |-> "index_docs",
                                         candidate |-> f.docs[k].version,
                                         repo |-> f.docs[k].repo,
                                         path |-> f.docs[k].path,
                                         content |-> f.docs[k].content]]
                               ELSE origin
                        /\ last' =
                               [op |-> "index_docs", error |-> r.error,
                                before |-> docs, objects |-> schema,
                                n |-> Len(f.docs), null_version |-> FALSE,
                                unclosed |->
                                    index_docs_unclosed(
                                        Database(schema, docs, "none"),
                                        f.docs, storage_fault)]
    /\ UNCHANGED <<config, storage_fault, setup, vvars, cvars>>

NextMain == MainIteration

SpecMain == InitMain /\ [][NextMain]_vars

(***************************************************************************)
(* Properties of determine_version (under SpecClassify).                   *)
(***************************************************************************)
Classified == version # Returned(Pending)

\* the rules of the decision list, by number; rule 7 takes a source URL to
\* be networked when it begins with http://, https:// or git@
RuleMatches(k) ==
    CASE k = 1 -> repo.heads = <<>> /\ repo.tags = <<>>
      [] k = 2 -> repo.is_detached
      [] k = 3 -> repo.is_shallow
      [] k = 4 -> repo.remotes = 0
      [] k = 5 -> repo.commits <= 1
      [] k = 6 -> repo.remotes > 1
      [] k = 7 -> \A prefix \in {<<"h", "t", "t", "p", ":", "/", "/">>,
                                 <<"h", "t", "t", "p", "s", ":", "/", "/">>,
                                 <<"g", "i", "t", "@">>} :
                      ~startswith(repo_url, prefix)
      [] k = 8 -> repo.tags # <<>>
      [] k = 9 -> TRUE

RuleResult(k) ==
    CASE k = 1 -> EMPTY_REPO
      [] k = 2 -> DETACHED_HEAD
      [] k = 3 -> SHALLOW_CLONE
      [] k = 4 -> NO_REMOTE
      [] k = 5 -> INITIAL_COMMIT
      [] k = 6 -> MULTIPLE_REMOTES
      [] k = 7 -> LOCAL_PATH
      [] k = 8 -> repo.tags[Len(repo.tags)]
      [] k = 9 -> IF repo.active_branch = MAIN_BRANCH /\ repo.tags = <<>>
                  THEN MAIN_BRANCH
                  ELSE repo.active_branch

FirstRule == CHOOSE k \in 1..9 : RuleMatches(k) /\ \A j \in 1..(k - 1) : ~RuleMatches(j)

ExceptionOccurred ==
    \/ version.exc # "none"
    \/ version.caught # "none"
    \/ version.swallowed # "none"

SshStyle(url) ==
    \E i \in 2..Len(url) : \E j \in (i + 2)..Len(url) :
        /\ url[i] = "@"
        /\ url[j] = ":"
        /\ \A k \in 1..(j - 1) : k # i => url[k] \notin {"/", "@", ":"}

\* C19: when every read succeeds and none of rules 1-6 matches,
\* determine_version returns 'local' exactly when the source URL begins
\* with none of http://, https:// and an SSH-style user@host: prefix.
C19_LocalUnlessNetworked ==
    (Classified /\ fault = NoFault /\ \A k \in 1..6 : ~RuleMatches(k)) =>
        (version.ret = LOCAL_PATH <=>
            ~ \/ startswith(repo_url, <<"h", "t", "t", "p", ":", "/", "/">>)
              \/ startswith(repo_url,
                            <<"h", "t", "t", "p", "s", ":", "/", "/">>)
              \/ SshStyle(repo_url))

\* C20: when every read succeeds, none of rules 1-7 matches and the
\* repository has a tag, determine_version returns the name of the tag
\* created last.
C20_NewestTagReturned ==
    (Classified /\ fault = NoFault /\ repo.tags # <<>>
        /\ \A k \in 1..7 : ~RuleMatches(k)) =>
        version.ret = repo.newest_tag

\* C21: a repository with a single commit on branch main, no tags, no
\* remotes, an attached HEAD and full history, with an https:// source URL,
\* is classified 'main'.
C21_SingleCommitMainIsMain ==
    (/\ Classified
     /\ fault = NoFault
     /\ repo.heads = <<MAIN_BRANCH>>
     /\ repo.active_branch = MAIN_BRANCH
     /\ repo.commits = 1
     /\ repo.tags = <<>>
     /\ repo.remotes = 0
     /\ ~repo.is_detached
     /\ ~repo.is_shallow
     /\ startswith(repo_url, <<"h", "t", "t", "p", "s", ":", "/", "/">>))
        => version.ret = MAIN_BRANCH

\* C22: a repository with one commit, no tags and no remotes, with a source
\* URL that is a path of the file system, is classified 'local'.
C22_LocalRepositoryIsLocal ==
    (/\ Classified
     /\ fault = NoFault
     /\ repo.heads = <<MAIN_BRANCH>>
     /\ repo.active_branch # None
     /\ repo.commits = 1
     /\ repo.tags = <<>>
     /\ repo.remotes = 0
     /\ ~repo.is_detached
     /\ ~repo.is_shallow
     /\ Len(repo_url) > 0
     /\ repo_url[1] = "/")
        => version.ret = LOCAL_PATH

\* the names of the tags of the repository
TagNames == {repo.tags[i] : i \in 1..Len(repo.tags)}

\* C29: determine_version returns 'latest', 'submodule' or 'corrupted' only
\* when a tag or the active branch bears that very name, whatever is read
\* and whatever read raises.
C29_NoRuleForThreeCategories ==
    (Classified /\ version.ret \in {LATEST, SUBMODULE, CORRUPTED}) =>
        \/ version.ret \in TagNames
        \/ version.ret = repo.active_branch

\* C29 witness: a call has returned 'latest' for a repository whose only
\* tag is named latest.
C29_Witness ==
    /\ Classified
    /\ version.ret = LATEST
    /\ repo.tags = <<LATEST>>
    /\ repo.active_branch # LATEST

(***************************************************************************)
(* Properties of validate_version and determine_version_category (under    *)
(* SpecValidate).                                                          *)
(***************************************************************************)
\* the number of '.'-separated components of s
Components(s) == Cardinality({i \in 1..Len(s) : s[i] = "."}) + 1

\* C3: validate_version is idempotent.
C3_Idempotent == revalidated # Pending => revalidated = validated

\* C3 witness: a candidate that was replaced by the default has been
\* validated twice.
C3_Witness ==
    /\ revalidated # Pending
    /\ candidate = <<"1", ".", "2">>
    /\ validated = LATEST

C5_TagsUnchanged ==
    (/\ validated # Pending
     /\ candidate # None
     /\ git_tag_pattern(candidate)
     /\ ~incomplete_semver_pattern(candidate)) => validated = candidate

\* C6 as stated: every candidate that matches the semantic version pattern
\* is returned unchanged, also with a '.' in its pre-release suffix.
C6_SemanticUnchanged ==
    (/\ validated # Pending
     /\ candidate # None
     /\ semantic_pattern(candidate)) => validated = candidate

\* C7: there are 12 category values and validate_version returns each of
\* them unchanged.
C7_CategoriesUnchanged ==
    /\ Cardinality(VersionTypeValues) = 12
    /\ (validated # Pending /\ candidate \in VersionTypeValues) =>
           validated = candidate

\* C7 witness: 'multi-remote', which has one component, came back unchanged.
C7_Witness ==
    /\ candidate = MULTIPLE_REMOTES
    /\ validated = MULTIPLE_REMOTES

\* C8: the category of a validated version is the version itself when that
\* is a category value and 'latest' otherwise, so it is always one of the 12
\* category values.
C8_CategoryOfValidated ==
    category # Pending =>
        /\ category \in VersionTypeValues
        /\ validated \in VersionTypeValues => category = validated
        /\ validated \notin VersionTypeValues => category = LATEST

\* C8 witness: an accepted semantic version has been given the category
\* 'latest'.
C8_Witness ==
    /\ category = LATEST
    /\ candidate = <<"v", "1", ".", "2", ".", "3">>
    /\ validated = candidate

\* the candidate comes to the incomplete-version check of validate_version
\* (lines 161-167): it is not empty, not a category, has three components
\* and is not a semantic version
ReachesIncompleteCheck ==
    /\ candidate # None
    /\ candidate # <<>>
    /\ candidate \notin VersionTypeValues
    /\ Len(version_parts(candidate)) = 3
    /\ ~semantic_pattern(candidate)

\* C30: no candidate that comes to the incomplete-version check matches
\* ^\d+\.\d+$; a candidate that matches it has other than three components
\* and is answered 'latest' by the component-count check.
C30_IncompleteCheckUnreachable ==
    validated # Pending =>
        /\ ~(ReachesIncompleteCheck /\ incomplete_semver_pattern(candidate))
        /\ incomplete_semver_pattern(candidate) =>
               /\ Len(version_parts(candidate)) # 3
               /\ validated = LATEST

\* C30 witness: the two-number candidate 1.1 has been answered 'latest', and
\* it has two components.
C30_Witness ==
    /\ validated = LATEST
    /\ candidate = <<"1", ".", "1">>
    /\ incomplete_semver_pattern(candidate)
    /\ Len(version_parts(candidate)) = 2

(***************************************************************************)
(* Properties of the docs table (under Spec).                              *)
(***************************************************************************)
\* C9: every row index_docs stored holds validate_version of the document's
\* version, and the determine_version_category of that stored version.
C9_RowDerivedFromCandidate ==
    /\ Len(origin) = Len(docs)
    /\ \A i \in 1..Len(docs) :
           origin[i].via = "index_docs" =>
               /\ docs[i].version = validate_version(origin[i].candidate)
               /\ docs[i].version_category =
                      determine_version_category(docs[i].version)

\* C9 witness: index_docs has stored a document whose version was rejected
\* and one whose version is a category value.
C9_Witness ==
    /\ \E i \in 1..Len(docs) :
           /\ origin[i].via = "index_docs"
           /\ origin[i].candidate = <<"1", ".", "2">>
           /\ docs[i].version = LATEST
    /\ \E i \in 1..Len(docs) :
           /\ origin[i].via = "index_docs"
           /\ docs[i].version_category = MAIN_BRANCH

\* C10: no row has a NULL version, and an INSERT that gives NULL for the
\* version ends with an integrity error and leaves the table as it was.
C10_NullVersionRejected ==
    /\ \A i \in 1..Len(docs) : docs[i].version # None
    /\ (last.op = "insert" /\ last.null_version) =>
           /\ last.error = "IntegrityError"
           /\ docs = last.before

\* C10 witness: an INSERT with a NULL version has just been rejected on a
\* table that holds rows.
C10_Witness ==
    /\ last.op = "insert"
    /\ last.null_version
    /\ last.error = "IntegrityError"
    /\ Len(docs) > 0

\* C11: a document with no explicit version (absent, None or empty) is
\* stored by index_docs with version 'latest' and category 'latest', and so
\* is the row of an INSERT that does not name the version column; that
\* INSERT succeeds.
C11_NoVersionStoredAsLatest ==
    /\ \A i \in 1..Len(docs) :
           (\/ origin[i].via = "insert"
            \/ /\ origin[i].via = "index_docs"
               /\ origin[i].candidate \in {DocumentDefaultVersion, None, <<>>})
               => /\ docs[i].version = LATEST
                  /\ docs[i].version_category = LATEST
    /\ (last.op = "insert" /\ ~last.null_version) => last.error = "none"

\* C11 witness: the table holds a row of a document with version None, one
\* of a document with the empty version, and one of an INSERT that did not
\* name the version.
C11_Witness ==
    /\ \E i \in 1..Len(docs) :
           origin[i].via = "index_docs" /\ origin[i].candidate = None
    /\ \E i \in 1..Len(docs) :
           origin[i].via = "index_docs" /\ origin[i].candidate = <<>>
    /\ \E i \in 1..Len(docs) :
           origin[i].via = "insert" /\ docs[i].version = LATEST

\* C12: a setup_db call on a database that setup_db has initialised raises
\* nothing and leaves the table, its 8 columns, the 6 indexes and every row
\* as they were.
C12_SetupDbIdempotent ==
    /\ Len(Columns) = 8
    /\ Cardinality(DOMAIN Indexes) = 6
    /\ (last.op = "setup_db" /\ last.objects = SchemaObjects) =>
           /\ last.error = "none"
           /\ schema = last.objects
           /\ docs = last.before

\* C12 witness: setup_db has just run on an initialised database that holds
\* rows.
C12_Witness ==
    /\ last.op = "setup_db"
    /\ last.objects = SchemaObjects
    /\ Len(last.before) >= 2
    /\ schema = SchemaObjects

\* C13: an index_docs call that returns normally leaves the rows stored
\* before it as they were and appends one row per document of the list, in
\* the order of the list, each with the repo, path and content of its
\* document.
C13_IndexDocsAppends ==
    (last.op = "index_docs" /\ last.error = "none") =>
        /\ Len(docs) = Len(last.before) + last.n
        /\ Len(origin) = Len(docs)
        /\ SubSeq(docs, 1, Len(last.before)) = last.before
        /\ \A i \in (Len(last.before) + 1)..Len(docs) :
               /\ docs[i].id = i
               /\ docs[i].repo = origin[i].repo
               /\ docs[i].path = origin[i].path
               /\ docs[i].content = origin[i].content

\* C13 witness: index_docs has just stored two documents with the same repo
\* and path on top of an earlier row.
C13_Witness ==
    /\ last.op = "index_docs"
    /\ last.error = "none"
    /\ last.n = 2
    /\ Len(last.before) = 1
    /\ Len(docs) = 3
    /\ docs[2].repo = docs[3].repo
    /\ docs[2].path = docs[3].path

\* a version string the validator is meant to reject: not a category, not a
\* semantic version, and either a short semantic version or not a tag name
Malformed(v) ==
    /\ v # None
    /\ v # <<>>
    /\ v \notin VersionTypeValues
    /\ ~semantic_pattern(v)
    /\ incomplete_semver_pattern(v) \/ ~git_tag_pattern(v)

\* C14: on a working engine index_docs returns normally whatever the
\* versions of the documents are, stores every document of the list, and
\* stores a malformed version as 'latest'.
C14_VersionNeverFails ==
    last.op = "index_docs" =>
        /\ last.error = "none"
        /\ Len(docs) = Len(last.before) + last.n
        /\ \A i \in (Len(last.before) + 1)..Len(docs) :
               Malformed(origin[i].candidate) =>
                   /\ docs[i].version = LATEST
                   /\ docs[i].version_category = LATEST

\* C14 witness: index_docs has just stored a list whose first document has
\* a malformed version and whose second has a semantic version, kept.
C14_Witness ==
    /\ last.op = "index_docs"
    /\ last.n = 2
    /\ Len(docs) = Len(last.before) + 2
    /\ Malformed(origin[Len(docs) - 1].candidate)
    /\ docs[Len(docs) - 1].version = LATEST
    /\ docs[Len(docs)].version = <<"1", ".", "2", ".", "3">>

(***************************************************************************)
(* Properties of index_docs on a failing engine (under SpecFaulty).        *)
(***************************************************************************)
\* the last call was an index_docs call that came to the engine call that
\* raises
FaultReached ==
    /\ last.op = "index_docs"
    /\ \/ storage_fault.fn = "setup_db"
       \/ /\ storage_fault.fn = "index_docs"
          /\ storage_fault.at = "execute" => storage_fault.nth <= last.n

C16_LockRetried ==
    (FaultReached /\ storage_fault.kind = "database is locked"
        /\ storage_fault.transient) =>
        /\ last.error = "none"
        /\ Len(docs) = Len(last.before) + last.n

\* C27: an index_docs call that raises leaves the rows of the table as
\* they were before it, the rows inserted before the failing statement
\* included; a call that returns has stored every document of its list.
C27_BatchAllOrNothing ==
    last.op = "index_docs" =>
        IF last.error # "none" THEN docs = last.before
        ELSE Len(docs) = Len(last.before) + last.n

\* C27 witness: the INSERT of the second document of a list has just failed
\* on a locked database, after the INSERT of the first, on a table that
\* held a row; the table is as it was.
C27_Witness ==
    /\ last.op = "index_docs"
    /\ storage_fault.fn = "index_docs"
    /\ storage_fault.at = "execute"
    /\ storage_fault.nth = 2
    /\ last.n = 2
    /\ last.error = "database is locked"
    /\ Len(last.before) = 1
    /\ docs = last.before

\* C28: when setup_db or index_docs ends, by return or by exception, every
\* connection it opened is closed.
C28_ConnectionsClosed ==
    last.op \in {"setup_db", "index_docs"} => last.unclosed = 0

(***************************************************************************)
(* Properties of two racing setup_db calls (under SpecRace).               *)
(***************************************************************************)
\* C17: in every interleaving of the statements of two setup_db calls no
\* call raises, the rows stored before them stay as they were, no object
\* other than the table and its six indexes appears, and once both calls
\* have returned the database holds the table and each of the six indexes
\* (an object is known to the engine by its name, so once).
C17_RaceLeavesOneSchema ==
    /\ \A p \in Procs : setup[p].error = "none"
    /\ schema \subseteq SchemaObjects
    /\ Len(docs) = last.n
    /\ Len(origin) = Len(docs)
    /\ \A i \in 1..Len(docs) :
           /\ docs[i].id = i
           /\ docs[i].repo = origin[i].repo
           /\ docs[i].path = origin[i].path
           /\ docs[i].content = origin[i].content
           /\ docs[i].version = validate_version(origin[i].candidate)
    /\ (\A p \in Procs : setup[p].pc = PcReturned) =>
           /\ schema = SchemaObjects
           /\ Cardinality(schema) = 1 + Cardinality(DOMAIN Indexes)

\* C17 witness: both calls have returned on a database that held two rows
\* before them.
C17_Witness ==
    /\ \A p \in Procs : setup[p].pc = PcReturned
    /\ \A p \in Procs : setup[p].error = "none"
    /\ Len(docs) = 2
    /\ schema = SchemaObjects

(***************************************************************************)
(* Further properties of the docs table (under Spec).                      *)
(***************************************************************************)
\* C18: every row has a non-empty repo and a non-empty path.
C18_RepoAndPathNonEmpty ==
    \A i \in 1..Len(docs) : docs[i].repo # <<>> /\ docs[i].path # <<>>

(***************************************************************************)
(* Properties of fetch_repo (under SpecFetch).                             *)
(***************************************************************************)
\* the number of clone attempts after which the retry gives up
RetryLimit == 5

\* C24: a clone that fails with GitCommandError is tried again after a
\* sleep of 1 second, then 2, doubling: when an attempt within the first 5
\* succeeds fetch_repo returns normally, and when the first 5 all fail it
\* raises GitCommandError after the fifth.
C24_CloneRetried ==
    (/\ fetched # NotFetched
     /\ config[1].clone_failures > 0
     /\ config[1].clone_error = "GitCommandError") =>
        IF config[1].clone_failures < RetryLimit
        THEN /\ fetched.exc = "none"
             /\ fetched.clone_calls = config[1].clone_failures + 1
             /\ fetched.sleeps =
                    [k \in 1..config[1].clone_failures |-> 2 ^ (k - 1)]
        ELSE /\ fetched.exc = "GitCommandError"
             /\ fetched.clone_calls = RetryLimit

\* C25: when the clone succeeds, fetch_repo returns normally with one
\* document for each markdown file whose read succeeds, whatever the reads
\* of the other files raise.
C25_UnreadableFileSkipped ==
    (fetched # NotFetched /\ config[1].clone_failures = 0) =>
        /\ fetched.exc = "none"
        /\ Len(fetched.docs) =
               Cardinality({k \in 1..Len(config[1].files) :
                   /\ endswith(config[1].files[k].name, <<".", "m", "d">>)
                   /\ config[1].files[k].read = "ok"})

(***************************************************************************)
(* Properties of main() (under SpecMain).                                  *)
(***************************************************************************)
\* main() has returned or raised
MainEnded == progress.exc # "none" \/ progress.next > Len(config)

\* the repositories for which the log holds the event, in the order of the
\* log
RECURSIVE ReposOf(_, _)
ReposOf(event, k) ==
    IF k > Len(log) THEN <<>>
    ELSE IF log[k].event = event THEN <<log[k].repo>> \o ReposOf(event, k + 1)
    ELSE ReposOf(event, k + 1)

\* C23: when main() has ended it has not raised; it has called fetch_repo
\* once for each repository of the configuration, in order; it has printed
\* 'Failed to index' for each repository whose fetch raised; and it has
\* called index_docs for exactly the repositories whose fetch returned at
\* least one document.
C23_EveryRepositoryAttempted ==
    MainEnded =>
        /\ progress.exc = "none"
        /\ ReposOf("fetch_repo", 1) = [i \in 1..Len(config) |-> i]
        /\ \A i \in 1..Len(config) :
               LET f == fetch_repo(config[i])
                   indexed == \E k \in 1..Len(log) :
                                  log[k] = Event("index_docs", i)
                   failed == \E k \in 1..Len(log) :
                                 log[k] = Event("Failed to index", i)
               IN  /\ f.exc # "none" => failed
                   /\ indexed <=> (f.exc = "none" /\ f.docs # <<>>)

\* C26: the version of every row stored for a fetched document is the
\* label determine_version gave for its repository.
C26_LabelPersisted ==
    \A i \in 1..Len(docs) :
        origin[i].via = "index_docs" => docs[i].version = origin[i].candidate

=============================================================================
